---- MODULE Spec2Model ----
(***************************************************************************)
(* Model of backend/mis-api/main.py: the membership issuance endpoints     *)
(* (create_invitation, submit_onboarding, approve_membership,              *)
(* validate_key) over the record store, and the WebSocket session gateway  *)
(* (ConnectionManager, websocket_endpoint).                                *)
(*                                                                         *)
(* Every coroutine is cut at its awaits: one action per stretch of code    *)
(* that runs without suspending on the single event loop.                  *)
(***************************************************************************)
EXTENDS Naturals, Sequences, FiniteSets

\* ---------------------------------------------------------------- bounds

\* Number of approve_membership requests the administrator issues.
MaxCalls == 2
\* Number of onboarding submissions accepted per invitation code.
MaxOnboarding == 2
\* Number of WebSocket connections opened.
MaxSessions == 2

\* Invitation codes create_invitation can draw.
Codes == {"inv1", "inv2"}
\* Values secrets.token_hex(3) can return (a bounded part of its 2^24).
Rand == {"A1", "B2"}
\* Values of the coarse clock int(datetime.utcnow().timestamp()).
Times == {0, 1}
Calls == 1..MaxCalls
\* One client_id (uuid4) and one WebSocket per connection.
Sessions == 1..MaxSessions

\* ----------------------------------------------------------------- state

VARIABLES
  invitations,   \* store collection "invitations": code -> status, or "absent"
  onboarding,    \* store collection "onboarding": code -> number of records
  memberships,   \* store collection "memberships": sequence of rows
  now,           \* int(datetime.utcnow().timestamp())
  call,          \* the approve_membership requests, each at one of its awaits
  resp,          \* the response of the validate_key request just served, if any
  active_connections, \* manager.active_connections: client ids, insertion order
  lock,          \* manager._lock: "free", or the task holding it
  bc,            \* the manager.broadcast call in progress, if any
  spc,           \* each websocket_endpoint task: the await it is at
  auth_token,    \* each websocket_endpoint task: its local auth_token
  msg,           \* each task: the inbound message it is handling, if any
  env,           \* each task: the envelope it is about to send
  wire,          \* each WebSocket: the tasks whose personal messages it carried
  broken         \* each WebSocket: whether send_text on it raises

issVars == <<invitations, onboarding, memberships, now, call, resp>>
gwVars == <<active_connections, lock, bc, spc, auth_token, msg, env, wire,
            broken>>
vars == <<invitations, onboarding, memberships, now, call, resp,
          active_connections, lock, bc, spc, auth_token, msg, env, wire,
          broken>>

\* ------------------------------------------------------ credential strings

\* f"MEMBER-{secrets.token_hex(3).upper()}": string parts kept as a tuple.
MembershipCode(r) == <<"MEMBER", r>>

\* f"{membership_code}-{timestamp}"
MembershipKey(code, ts) == Append(code, ts)

\* Keys a client can present to validate_key: either shape.
PresentedKeys ==
  {MembershipCode(r) : r \in Rand}
    \cup {MembershipKey(MembershipCode(r), t) : r \in Rand, t \in Times}

\* Values the store gives the column "status" of a memberships row: the
\* insert payload does not carry it, so it is whatever the table defaults to.
StatusColumn == {"active", "unset"}

\* ------------------------------------------------------------ store queries

Rows(ms) == DOMAIN ms

\* Mutant: the guard filters on the wrong column.
ActiveForInvitationWrongColumn(ms, c) ==
  {i \in Rows(ms) : ms[i].membership_code = c /\ ms[i].active}

\* GET rest/v1/memberships?invitation_code=eq.c&active=eq.true
ActiveForInvitation(ms, c) ==
  {i \in Rows(ms) : ms[i].invitation_code = c /\ ms[i].active}

\* GET rest/v1/memberships?membership_code=eq.k&status=eq.active
MatchValidateKey(ms, k) ==
  {i \in Rows(ms) : ms[i].membership_code = k /\ ms[i].status = "active"}

\* The row approve_membership posts, as the store keeps it.
MembershipRow(c, r, ts, st) ==
  [invitation_code |-> c,
   membership_code |-> MembershipCode(r),
   membership_key  |-> MembershipKey(MembershipCode(r), ts),
   active          |-> TRUE,
   status          |-> st]

\* ------------------------------------------------------------------- init

NoResp == [op |-> "none", key |-> <<>>, result |-> "none"]

IdleCall ==
  [pc |-> "idle", code |-> "none", rand |-> "none", ts |-> 0,
   result |-> "none", wrote |-> FALSE, row |-> 0, seen |-> "none",
   afterOk |-> FALSE]

\* The empty token: message.get("payload", {}).get("token") is None or "".
NoToken == <<>>

NoMsg == [type |-> "none", token |-> NoToken, content |-> "", payload_ok |-> TRUE]
NoEnv == [type |-> "none", payload |-> "none"]
NoBroadcast ==
  [pc |-> "idle", snapshot |-> <<>>, idx |-> 0, exclude |-> 0, delivered |-> {}]

\* No connection yet, the manager as constructed.
InitGateway ==
  /\ active_connections = <<>>
  /\ lock = "free"
  /\ bc = NoBroadcast
  /\ spc = [s \in Sessions |-> "idle"]
  /\ auth_token = [s \in Sessions |-> NoToken]
  /\ msg = [s \in Sessions |-> NoMsg]
  /\ env = [s \in Sessions |-> NoEnv]
  /\ wire = [s \in Sessions |-> {}]
  /\ broken = [s \in Sessions |-> FALSE]

InitIssuance ==
  /\ invitations = [c \in Codes |-> "absent"]
  /\ onboarding = [c \in Codes |-> 0]
  /\ now = 0
  /\ call = [p \in Calls |-> IdleCall]
  /\ resp = NoResp

Init ==
  /\ InitIssuance
  /\ memberships = <<>>
  /\ InitGateway

\* A finished request keeps only what it answered.
Finish(p, res) ==
  call' = [call EXCEPT ![p].pc = "done", ![p].result = res,
                       ![p].rand = "none", ![p].ts = 0]

\* --------------------------------------------------------------- invitations

\* create_invitation: posts a row with status "pending" under a new code
\* (18 random characters, taken as not yet in use).  A rejected post is a 500
\* that leaves the store as it was.
CreateInvitation(c) ==
  /\ invitations[c] = "absent"
  /\ invitations' = [invitations EXCEPT ![c] = "pending"]
  /\ resp' = NoResp
  /\ UNCHANGED <<onboarding, memberships, now, call>>
  /\ UNCHANGED gwVars

\* submit_onboarding: 404 when no invitation has the code, else posts one
\* onboarding row.  It writes nothing to "invitations".  The 404 and a failed
\* store call leave the store as it was.
SubmitOnboarding(c) ==
  /\ invitations[c] # "absent"
  /\ onboarding[c] < MaxOnboarding
  /\ onboarding' = [onboarding EXCEPT ![c] = @ + 1]
  /\ resp' = NoResp
  /\ UNCHANGED <<invitations, memberships, now, call>>
  /\ UNCHANGED gwVars

\* The status "onboarded" that approve_membership tests for is written by no
\* operation of this file: another writer of the store sets it.
StoreMarkOnboarded(c) ==
  /\ invitations[c] = "pending"
  /\ invitations' = [invitations EXCEPT ![c] = "onboarded"]
  /\ resp' = NoResp
  /\ UNCHANGED <<onboarding, memberships, now, call>>
  /\ UNCHANGED gwVars

\* The revocation process outside this file clears a row's "active".
StoreRevoke(i) ==
  /\ i \in Rows(memberships)
  /\ memberships[i].active
  /\ memberships' = [memberships EXCEPT ![i].active = FALSE]
  /\ resp' = NoResp
  /\ UNCHANGED <<invitations, onboarding, now, call>>
  /\ UNCHANGED gwVars

\* A second passes.
Tick ==
  /\ now + 1 \in Times
  /\ now' = now + 1
  /\ resp' = NoResp
  /\ UNCHANGED <<invitations, onboarding, memberships, call>>
  /\ UNCHANGED gwVars

\* ----------------------------------------------------------- approve_membership

\* The request arrives; the slots are used in order.
ApproveStart(p, c) ==
  /\ call[p].pc = "idle"
  /\ \A q \in Calls : q < p => call[q].pc # "idle"
  /\ call' = [call EXCEPT
       ![p].pc = "guard",
       ![p].code = c,
       ![p].afterOk = \E q \in Calls :
                         /\ call[q].pc = "done"
                         /\ call[q].code = c
                         /\ call[q].result = "ok"]
  /\ resp' = NoResp
  /\ UNCHANGED <<invitations, onboarding, memberships, now>>
  /\ UNCHANGED gwVars

\* Mutant: the replay guard comes after the invitation checks, that is, a
\* request goes to the invitation query whatever the memberships hold.
ApproveGuardMissing(p) ==
  /\ call[p].pc = "guard"
  /\ call' = [call EXCEPT ![p].pc = "fetch"]
  /\ resp' = NoResp
  /\ UNCHANGED <<invitations, onboarding, memberships, now>>
  /\ UNCHANGED gwVars

\* 0. Replay prevention: the guard query answers; 409 when it is not empty.
ApproveGuard(p) ==
  /\ call[p].pc = "guard"
  /\ IF ActiveForInvitation(memberships, call[p].code) # {}
       THEN Finish(p, "409")
       ELSE call' = [call EXCEPT ![p].pc = "fetch"]
  /\ resp' = NoResp
  /\ UNCHANGED <<invitations, onboarding, memberships, now>>
  /\ UNCHANGED gwVars

\* Mutant: a pending invitation passes the precondition.
NotOnboardedNorPending(st) == st \notin {"onboarded", "pending"}

\* inv.get("status") != "onboarded" raises 400.
NotOnboarded(st) == st # "onboarded"

\* 1. The invitation query answers: 404 when empty, 400 unless "onboarded";
\* 2. otherwise the code and key are generated and the insert is sent.
ApproveFetch(p) ==
  /\ call[p].pc = "fetch"
  /\ LET st == invitations[call[p].code] IN
       IF st = "absent"
         THEN Finish(p, "404")
         ELSE IF NotOnboarded(st)
           THEN call' = [call EXCEPT ![p].pc = "done", ![p].result = "400",
                                     ![p].seen = st]
           ELSE \E r \in Rand :
                  call' = [call EXCEPT ![p].pc = "post", ![p].seen = st,
                                       ![p].rand = r, ![p].ts = now]
  /\ resp' = NoResp
  /\ UNCHANGED <<invitations, onboarding, memberships, now>>
  /\ UNCHANGED gwVars

\* safe_get_from_supabase raises HTTPException(500) when the store fails.
ApproveReadFails(p) ==
  /\ call[p].pc \in {"guard", "fetch"}
  /\ Finish(p, "500")
  /\ resp' = NoResp
  /\ UNCHANGED <<invitations, onboarding, memberships, now>>
  /\ UNCHANGED gwVars

\* 3. The store inserts the row and answers with it: success.
ApprovePost(p) ==
  /\ call[p].pc = "post"
  /\ \E st \in StatusColumn :
       memberships' = Append(memberships,
                        MembershipRow(call[p].code, call[p].rand, call[p].ts, st))
  /\ call' = [call EXCEPT ![p].pc = "done", ![p].result = "ok",
                          ![p].wrote = TRUE, ![p].row = Len(memberships) + 1]
  /\ resp' = NoResp
  /\ UNCHANGED <<invitations, onboarding, now>>
  /\ UNCHANGED gwVars

\* 3. The store inserts the row but its answer is empty: "if not
\* insert_result" raises 500 with the row written.
ApprovePostEmptyAnswer(p) ==
  /\ call[p].pc = "post"
  /\ \E st \in StatusColumn :
       memberships' = Append(memberships,
                        MembershipRow(call[p].code, call[p].rand, call[p].ts, st))
  /\ call' = [call EXCEPT ![p].pc = "done", ![p].result = "500",
                          ![p].wrote = TRUE, ![p].row = Len(memberships) + 1]
  /\ resp' = NoResp
  /\ UNCHANGED <<invitations, onboarding, now>>
  /\ UNCHANGED gwVars

\* 3. The store rejects the insert: safe_post_to_supabase raises 500.
ApprovePostRejected(p) ==
  /\ call[p].pc = "post"
  /\ Finish(p, "500")
  /\ resp' = NoResp
  /\ UNCHANGED <<invitations, onboarding, memberships, now>>
  /\ UNCHANGED gwVars

\* ------------------------------------------------------------------ validate_key

\* POST /validate-key: one query; 404 when it is empty, valid otherwise.
ValidateKey(k) ==
  /\ resp' = [op |-> "validate_key", key |-> k,
              result |-> IF MatchValidateKey(memberships, k) = {}
                           THEN "404" ELSE "valid"]
  /\ UNCHANGED <<invitations, onboarding, memberships, now, call>>
  /\ UNCHANGED gwVars

\* The query fails: safe_get_from_supabase raises 500.
ValidateKeyReadFails(k) ==
  /\ resp' = [op |-> "validate_key", key |-> k, result |-> "500"]
  /\ UNCHANGED <<invitations, onboarding, memberships, now, call>>
  /\ UNCHANGED gwVars

\* ------------------------------------------------------------------- next

\* approve_membership over the invitations and memberships collections.
Next ==
  \/ \E c \in Codes : CreateInvitation(c)
  \/ \E c \in Codes : StoreMarkOnboarded(c)
  \/ \E i \in Rows(memberships) : StoreRevoke(i)
  \/ Tick
  \/ \E p \in Calls, c \in Codes : ApproveStart(p, c)
  \/ \E p \in Calls : ApproveGuard(p)
  \/ \E p \in Calls : ApproveFetch(p)
  \/ \E p \in Calls : ApproveReadFails(p)
  \/ \E p \in Calls : ApprovePost(p)
  \/ \E p \in Calls : ApprovePostEmptyAnswer(p)
  \/ \E p \in Calls : ApprovePostRejected(p)

Spec == Init /\ [][Next]_vars

\* The same with submit_onboarding.  The onboarding collection is read by no
\* operation, so Spec loses no behaviour of the other collections.
NextOnboarding ==
  \/ Next
  \/ \E c \in Codes : SubmitOnboarding(c)

SpecOnboarding == Init /\ [][NextOnboarding]_vars

\* The same with validate_key, which writes to no collection.
NextValidate ==
  \/ Next
  \/ \E k \in PresentedKeys : ValidateKey(k)
  \/ \E k \in PresentedKeys : ValidateKeyReadFails(k)

SpecValidate == Init /\ [][NextValidate]_vars

\* Contents the store can have when approve_membership is called: the
\* collections are also written from outside this file, so an invitation can
\* be missing or pending while a Membership names its code (inv1 here; inv2
\* starts absent as in Init).
StoredStatus == {"absent", "pending", "onboarded"}
StoredMemberships == {<<>>, <<MembershipRow("inv1", "A1", 0, "active")>>}

InitStored ==
  /\ invitations \in {[c \in Codes |-> IF c = "inv1" THEN st ELSE "absent"] :
                        st \in StoredStatus}
  /\ memberships \in StoredMemberships
  /\ onboarding = [c \in Codes |-> 0]
  /\ now = 0
  /\ call = [p \in Calls |-> IdleCall]
  /\ resp = NoResp
  /\ InitGateway

\* approve_membership over any such store.  The clock stands still: it only
\* feeds the timestamp of the key.
NextStored ==
  \/ \E c \in Codes : CreateInvitation(c)
  \/ \E c \in Codes : StoreMarkOnboarded(c)
  \/ \E i \in Rows(memberships) : StoreRevoke(i)
  \/ \E p \in Calls, c \in Codes : ApproveStart(p, c)
  \/ \E p \in Calls : ApproveGuard(p)
  \/ \E p \in Calls : ApproveFetch(p)
  \/ \E p \in Calls : ApproveReadFails(p)
  \/ \E p \in Calls : ApprovePost(p)
  \/ \E p \in Calls : ApprovePostEmptyAnswer(p)
  \/ \E p \in Calls : ApprovePostRejected(p)

SpecStored == InitStored /\ [][NextStored]_vars

\* ------------------------------------------------------- credential validator

\* supabase.validate_key (module database): an active Membership whose
\* membership_code equals the key; one match is an identity, none or several
\* are Invalid.
ValidatorValid(ms, k) ==
  Cardinality({i \in Rows(ms) : ms[i].membership_code = k /\ ms[i].active}) = 1

\* -------------------------------------------------------------- ConnectionManager

\* The task of manager.broadcast, beside the tasks 1..MaxSessions.
Broadcaster == 0

Tokens == {MembershipCode(r) : r \in Rand}

\* Inbound texts, by what json.loads and the dispatch make of them.
Messages ==
  {[type |-> "auth", token |-> t, content |-> "", payload_ok |-> TRUE] :
     t \in Tokens \cup {NoToken}}
  \cup {[type |-> "chat_message", token |-> NoToken, content |-> c,
         payload_ok |-> TRUE] : c \in {"hi", ""}}
  \cup {[type |-> t, token |-> NoToken, content |-> "", payload_ok |-> FALSE] :
          t \in {"auth", "chat_message"}}
  \cup {[type |-> t, token |-> NoToken, content |-> "", payload_ok |-> TRUE] :
          t \in {"ping", "badjson", "notobject"}}

Envelope(t, p) == [type |-> t, payload |-> p]

Registered(s) == \E i \in DOMAIN active_connections : active_connections[i] = s

\* Mutant: the entry at the head of the registry is deleted.
RemoveHead(reg, s) == IF reg = <<>> THEN reg ELSE Tail(reg)

\* del self.active_connections[client_id], when present.
Remove(reg, s) == SelectSeq(reg, LAMBDA x : x # s)

\* Mutant: the message goes to the first registered connection.
SendTargetFirst(s) == active_connections[1]

\* self.active_connections[client_id]: the WebSocket registered under the id.
SendTarget(s) == s

\* websocket.accept() returns.
Accept(s) ==
  /\ spc[s] = "idle"
  /\ \A r \in Sessions : r < s => spc[r] # "idle"
  /\ spc' = [spc EXCEPT ![s] = "register"]
  /\ UNCHANGED <<active_connections, lock, bc, auth_token, msg, env, wire,
                 broken>>
  /\ UNCHANGED issVars

\* websocket.accept() raises: "except Exception" calls manager.disconnect.
AcceptFails(s) ==
  /\ spc[s] = "idle"
  /\ \A r \in Sessions : r < s => spc[r] # "idle"
  /\ spc' = [spc EXCEPT ![s] = "closing"]
  /\ UNCHANGED <<active_connections, lock, bc, auth_token, msg, env, wire,
                 broken>>
  /\ UNCHANGED issVars

\* connect: under the lock, self.active_connections[client_id] = websocket.
Register(s) ==
  /\ spc[s] = "register"
  /\ lock = "free"
  /\ active_connections' = Append(active_connections, s)
  /\ spc' = [spc EXCEPT ![s] = "recv"]
  /\ UNCHANGED <<lock, bc, auth_token, msg, env, wire, broken>>
  /\ UNCHANGED issVars

\* Mutant: the test of auth_token is missing.
UnauthenticatedNever(tok) == FALSE

\* "if not auth_token": no valid auth message has been handled yet.
Unauthenticated(tok) == tok = NoToken

\* Mutant: a type that is neither "auth" nor "chat_message" is answered with
\* an error envelope.
DispatchAnswersUnknown(m, tok) ==
  CASE m.type = "badjson" ->
         [pc |-> "send", env |-> Envelope("error", "Invalid message format")]
    [] m.type = "notobject" ->
         [pc |-> "closing", env |-> NoEnv]
    [] m.type = "auth" ->
         IF ~m.payload_ok THEN [pc |-> "closing", env |-> NoEnv]
         ELSE IF m.token # NoToken THEN [pc |-> "validate", env |-> NoEnv]
         ELSE [pc |-> "send",
               env |-> Envelope("auth_failed", "Invalid authentication token")]
    [] m.type = "chat_message" ->
         IF Unauthenticated(tok)
           THEN [pc |-> "send",
                 env |-> Envelope("error", "Authentication required")]
         ELSE IF ~m.payload_ok THEN [pc |-> "closing", env |-> NoEnv]
         ELSE IF m.content # "" THEN [pc |-> "chat", env |-> NoEnv]
         ELSE [pc |-> "recv", env |-> NoEnv]
    [] OTHER -> [pc |-> "send", env |-> Envelope("error", "Unknown message type")]

\* What the loop body does with a message up to its first await: the await
\* it stops at and the envelope it is about to send.
Dispatch(m, tok) ==
  CASE m.type = "badjson" ->
         [pc |-> "send", env |-> Envelope("error", "Invalid message format")]
    [] m.type = "notobject" ->
         [pc |-> "closing", env |-> NoEnv]
    [] m.type = "auth" ->
         IF ~m.payload_ok THEN [pc |-> "closing", env |-> NoEnv]
         ELSE IF m.token # NoToken THEN [pc |-> "validate", env |-> NoEnv]
         ELSE [pc |-> "send",
               env |-> Envelope("auth_failed", "Invalid authentication token")]
    [] m.type = "chat_message" ->
         IF Unauthenticated(tok)
           THEN [pc |-> "send",
                 env |-> Envelope("error", "Authentication required")]
         ELSE IF ~m.payload_ok THEN [pc |-> "closing", env |-> NoEnv]
         ELSE IF m.content # "" THEN [pc |-> "chat", env |-> NoEnv]
         ELSE [pc |-> "recv", env |-> NoEnv]
    [] OTHER -> [pc |-> "recv", env |-> NoEnv]

\* websocket.receive_text() returns a text.  The message is kept while the
\* loop body handles it.
Receive(s, m) ==
  /\ spc[s] = "recv"
  /\ msg' = [msg EXCEPT ![s] =
               IF Dispatch(m, auth_token[s]).pc = "recv" THEN NoMsg ELSE m]
  /\ spc' = [spc EXCEPT ![s] = Dispatch(m, auth_token[s]).pc]
  /\ env' = [env EXCEPT ![s] = Dispatch(m, auth_token[s]).env]
  /\ UNCHANGED <<active_connections, lock, bc, auth_token, wire, broken>>
  /\ UNCHANGED issVars

\* websocket.receive_text() raises WebSocketDisconnect.
ClientDisconnect(s) ==
  /\ spc[s] = "recv"
  /\ spc' = [spc EXCEPT ![s] = "closing"]
  /\ UNCHANGED <<active_connections, lock, bc, auth_token, msg, env, wire,
                 broken>>
  /\ UNCHANGED issVars

\* The token a valid lookup binds to the session.
BoundToken(s) == msg[s].token

\* "auth": supabase.validate_key(token) returns.
AuthValidate(s) ==
  /\ spc[s] = "validate"
  /\ IF ValidatorValid(memberships, msg[s].token)
       THEN /\ auth_token' = [auth_token EXCEPT ![s] = BoundToken(s)]
            /\ env' = [env EXCEPT ![s] = Envelope("auth_success", "user_name")]
       ELSE /\ auth_token' = auth_token
            /\ env' = [env EXCEPT ![s] =
                         Envelope("auth_failed", "Invalid authentication token")]
  /\ spc' = [spc EXCEPT ![s] = "send"]
  /\ UNCHANGED <<active_connections, lock, bc, msg, wire, broken>>
  /\ UNCHANGED issVars

\* "auth": supabase.validate_key(token) raises; only JSONDecodeError is caught
\* inside the loop, so "except Exception" ends the task.
AuthValidateRaises(s) ==
  /\ spc[s] = "validate"
  /\ spc' = [spc EXCEPT ![s] = "closing"]
  /\ UNCHANGED <<active_connections, lock, bc, auth_token, msg, env, wire,
                 broken>>
  /\ UNCHANGED issVars

\* Mutant: process_chat_message does not look the token up.
ChatPayloadNoLookup(valid) == "error: Failed to process message"

\* process_chat_message once its lookup returned: an invalid token is an error
\* payload; for a valid one gpt_chat returns a dict, "response.response"
\* raises AttributeError and the except clause returns an error payload.
ChatPayload(valid) ==
  IF valid THEN "error: Failed to process message"
           ELSE "error: Invalid authentication token"

\* "chat_message": process_chat_message returns after its lookup.
ChatProcess(s) ==
  /\ spc[s] = "chat"
  /\ env' = [env EXCEPT ![s] =
       Envelope("chat_response",
                ChatPayload(ValidatorValid(memberships, auth_token[s])))]
  /\ spc' = [spc EXCEPT ![s] = "send"]
  /\ UNCHANGED <<active_connections, lock, bc, auth_token, msg, wire, broken>>
  /\ UNCHANGED issVars

\* "chat_message": the lookup of process_chat_message raises; it is caught.
ChatProcessLookupRaises(s) ==
  /\ spc[s] = "chat"
  /\ env' = [env EXCEPT ![s] =
       Envelope("chat_response", "error: Failed to process message")]
  /\ spc' = [spc EXCEPT ![s] = "send"]
  /\ UNCHANGED <<active_connections, lock, bc, auth_token, msg, wire, broken>>
  /\ UNCHANGED issVars

\* send_personal_message(message, client_id): nothing when the id is not
\* registered; a failed send_text calls disconnect(client_id).
Send(s) ==
  /\ spc[s] = "send"
  /\ env' = [env EXCEPT ![s] = NoEnv]
  /\ IF ~Registered(s)
       THEN /\ spc' = [spc EXCEPT ![s] = "recv"]
            /\ msg' = [msg EXCEPT ![s] = NoMsg]
            /\ wire' = wire
       ELSE IF broken[SendTarget(s)]
         THEN /\ spc' = [spc EXCEPT ![s] = "send_disc"]
              /\ UNCHANGED <<msg, wire>>
         ELSE /\ spc' = [spc EXCEPT ![s] = "recv"]
              /\ msg' = [msg EXCEPT ![s] = NoMsg]
              /\ wire' = [wire EXCEPT ![SendTarget(s)] = @ \cup {s}]
  /\ UNCHANGED <<active_connections, lock, bc, auth_token, broken>>
  /\ UNCHANGED issVars

\* disconnect(client_id), called by task t: waits for the lock, deletes the
\* entry when present, releases.  From send_personal_message the loop goes
\* on; from the except clauses of websocket_endpoint the task ends; from
\* broadcast the iteration goes on.
DisconnectLocked(t) ==
  /\ lock = "free"
  /\ IF t = Broadcaster
       THEN /\ bc.pc = "disc"
            /\ active_connections' = Remove(active_connections, bc.snapshot[bc.idx])
            /\ bc' = [bc EXCEPT !.pc = "iter", !.idx = @ + 1]
            /\ spc' = spc
       ELSE /\ spc[t] \in {"send_disc", "closing"}
            /\ active_connections' = Remove(active_connections, t)
            /\ spc' = [spc EXCEPT ![t] = IF @ = "closing" THEN "ended" ELSE "recv"]
            /\ bc' = bc
  /\ msg' = [s \in Sessions |-> IF s = t THEN NoMsg ELSE msg[s]]
  /\ UNCHANGED <<lock, auth_token, env, wire, broken>>
  /\ UNCHANGED issVars

\* broadcast(message, exclude): takes the lock and lists the registry.
BroadcastStart(x) ==
  /\ bc.pc = "idle"
  /\ lock = "free"
  /\ lock' = "broadcast"
  /\ bc' = [pc |-> "iter", snapshot |-> active_connections, idx |-> 1,
            exclude |-> x, delivered |-> {}]
  /\ UNCHANGED <<active_connections, spc, auth_token, msg, env, wire,
                 broken>>
  /\ UNCHANGED issVars

\* One turn of the loop of broadcast, holding the lock; the lock is released
\* after the last one.
BroadcastStep ==
  /\ bc.pc = "iter"
  /\ IF bc.idx > Len(bc.snapshot)
       THEN /\ lock' = "free"
            /\ bc' = NoBroadcast
       ELSE LET id == bc.snapshot[bc.idx] IN
            /\ lock' = lock
            /\ IF id = bc.exclude
                 THEN bc' = [bc EXCEPT !.idx = @ + 1]
                 ELSE IF broken[id]
                   THEN bc' = [bc EXCEPT !.pc = "disc"]
                   ELSE bc' = [bc EXCEPT !.idx = @ + 1,
                                         !.delivered = @ \cup {id}]
  /\ UNCHANGED <<active_connections, spc, auth_token, msg, env, wire, broken>>
  /\ UNCHANGED issVars

\* The peer or the network breaks a connection: send_text on it raises.
ChannelBreaks(s) ==
  /\ spc[s] \notin {"idle", "ended"}
  /\ ~broken[s]
  /\ broken' = [broken EXCEPT ![s] = TRUE]
  /\ UNCHANGED <<active_connections, lock, bc, spc, auth_token, msg, env, wire>>
  /\ UNCHANGED issVars

\* The memberships collection the gateway starts over: two invitations
\* approved, as approve_membership writes them.
GatewayStore ==
  <<MembershipRow("inv1", "A1", 0, "active"),
    MembershipRow("inv2", "B2", 0, "active")>>

InitGatewaySpec ==
  /\ InitIssuance
  /\ memberships = GatewayStore
  /\ InitGateway

NextGateway ==
  \/ \E s \in Sessions : Accept(s)
  \/ \E s \in Sessions : AcceptFails(s)
  \/ \E s \in Sessions : Register(s)
  \/ \E s \in Sessions, m \in Messages : Receive(s, m)
  \/ \E s \in Sessions : ClientDisconnect(s)
  \/ \E s \in Sessions : AuthValidate(s)
  \/ \E s \in Sessions : AuthValidateRaises(s)
  \/ \E s \in Sessions : ChatProcess(s)
  \/ \E s \in Sessions : ChatProcessLookupRaises(s)
  \/ \E s \in Sessions : Send(s)
  \/ \E t \in Sessions \cup {Broadcaster} : DisconnectLocked(t)
  \/ \E x \in Sessions \cup {Broadcaster} : BroadcastStart(x)
  \/ BroadcastStep
  \/ \E s \in Sessions : ChannelBreaks(s)
  \/ \E i \in Rows(memberships) : StoreRevoke(i)

SpecGateway == InitGatewaySpec /\ [][NextGateway]_vars

\* The endpoint's task is cancelled at one of its awaits (server shutdown,
\* handler timeout): CancelledError derives from BaseException, so neither
\* "except WebSocketDisconnect" nor "except Exception" runs and the task ends
\* without calling disconnect.
TaskCancelled(s) ==
  /\ spc[s] \in {"register", "recv", "validate", "chat", "send", "send_disc",
                 "closing"}
  /\ spc' = [spc EXCEPT ![s] = "ended"]
  /\ msg' = [msg EXCEPT ![s] = NoMsg]
  /\ env' = [env EXCEPT ![s] = NoEnv]
  /\ UNCHANGED <<active_connections, lock, bc, auth_token, wire, broken>>
  /\ UNCHANGED issVars

\* The session tasks with cancellation, without manager.broadcast (no caller
\* in this file).
NextCancel ==
  \/ \E s \in Sessions : Accept(s)
  \/ \E s \in Sessions : AcceptFails(s)
  \/ \E s \in Sessions : Register(s)
  \/ \E s \in Sessions, m \in Messages : Receive(s, m)
  \/ \E s \in Sessions : ClientDisconnect(s)
  \/ \E s \in Sessions : AuthValidate(s)
  \/ \E s \in Sessions : AuthValidateRaises(s)
  \/ \E s \in Sessions : ChatProcess(s)
  \/ \E s \in Sessions : ChatProcessLookupRaises(s)
  \/ \E s \in Sessions : Send(s)
  \/ \E t \in Sessions : DisconnectLocked(t)
  \/ \E s \in Sessions : ChannelBreaks(s)
  \/ \E s \in Sessions : TaskCancelled(s)

SpecCancel == InitGatewaySpec /\ [][NextCancel]_vars

\* ------------------------------------------------------------------ claims

\* Records of the invitation c that the revocation process has cleared.
Revoked(c) ==
  {i \in Rows(memberships) :
     memberships[i].invitation_code = c /\ ~memberships[i].active}

\* Requests for the invitation c that returned a Membership.
Succeeded(c) ==
  {p \in Calls : call[p].code = c /\ call[p].result = "ok"}

\* C1: in every reachable state, under any interleaving of approve_membership
\* requests for one invitation_code, at most one active Membership has that
\* code, and at most one of the requests racing for it returns success.
C1_OneActiveMembershipPerInvitation ==
  \A c \in Codes :
    /\ Cardinality(ActiveForInvitation(memberships, c)) <= 1
    /\ Revoked(c) = {} => Cardinality(Succeeded(c)) <= 1

\* C2: a request that starts after an earlier request for the same invitation
\* returned success, whose Membership is still active, and that the store
\* answers, returns Conflict (409) and writes nothing.
C2_SecondApproveConflicts ==
  \A q \in Calls :
    (/\ call[q].pc = "done"
     /\ call[q].afterOk
     /\ call[q].result # "500"
     /\ Revoked(call[q].code) = {})
      => call[q].result = "409" /\ ~call[q].wrote

C2_Witness ==
  \E q \in Calls :
    /\ call[q].pc = "done"
    /\ call[q].afterOk
    /\ call[q].result = "409"
    /\ Succeeded(call[q].code) # {}
    /\ Len(memberships) = 1

\* C3: once submit_onboarding has stored the onboarding of an invitation, the
\* invitation's status is "onboarded" (so that it can be approved).
C3_SubmitOnboardingMarksOnboarded ==
  \A c \in Codes : onboarding[c] > 0 => invitations[c] = "onboarded"

\* C4: a request that finds its invitation with status "pending" returns
\* InvalidState (400) and has written no Membership; no request returns success
\* or writes a Membership while its invitation is pending.
C4_PendingNeverApproved ==
  \A p \in Calls :
    /\ call[p].seen = "pending"
         => call[p].pc = "done" /\ call[p].result = "400" /\ ~call[p].wrote
    /\ (call[p].pc # "idle" /\ invitations[call[p].code] = "pending")
         => /\ call[p].result # "ok"
            /\ ~call[p].wrote
            /\ ActiveForInvitation(memberships, call[p].code) = {}

C4_Witness ==
  \E p \in Calls :
    /\ call[p].seen = "pending"
    /\ call[p].result = "400"
    /\ invitations[call[p].code] = "pending"
    /\ memberships = <<>>

\* The rows whose bearer credential (membership_key) is k and that are active.
ActiveWithKey(k) ==
  {i \in Rows(memberships) :
     memberships[i].membership_key = k /\ memberships[i].active}

\* C6: validate_key, when the store answers, reports valid if and only if an
\* active Membership has the presented key.
C6_ValidIffActiveKey ==
  (resp.op = "validate_key" /\ resp.result # "500")
    => (resp.result = "valid" <=> ActiveWithKey(resp.key) # {})

\* The membership_key a successful request returned.
ReturnedKey(p) == MembershipKey(MembershipCode(call[p].rand), call[p].ts)

\* C7: the membership_key returned by a successful approve_membership is
\* reported valid by validate_key while the row that approval wrote is active.
C7_ReturnedKeyValidates ==
  \A p \in Calls :
    (/\ call[p].result = "ok"
     /\ memberships[call[p].row].active
     /\ resp.op = "validate_key"
     /\ resp.result # "500"
     /\ resp.key = ReturnedKey(p))
      => resp.result = "valid"

\* C8: when the query of validate_key matches more than one row, the key is
\* not reported valid.
C8_FailsClosedOnSeveralMatches ==
  (/\ resp.op = "validate_key"
   /\ Cardinality(MatchValidateKey(memberships, resp.key)) > 1)
    => resp.result # "valid"

\* The step manager.broadcast takes next, once it has begun.
BroadcastProgress == BroadcastStep \/ DisconnectLocked(Broadcaster)

\* C5: a broadcast that has begun is never stuck, whichever sends fail: it can
\* always take its next step (so it ends and releases the registry lock).
C5_BroadcastNeverStuck == bc.pc # "idle" => ENABLED BroadcastProgress

\* C9: once a task's auth_token is set, no step changes it.
C9_BoundTokenNeverChanges ==
  [][\A s \in Sessions :
       auth_token[s] # NoToken => auth_token'[s] = auth_token[s]]_vars

\* C10: every envelope a task sends with send_personal_message while handling
\* a message of its session goes on that session's WebSocket and on no other.
C10_PersonalEnvelopesStayOnOwnSession == \A s \in Sessions : wire[s] \subseteq {s}

C10_Witness ==
  \E a \in Sessions, b \in Sessions :
    /\ a # b
    /\ wire[a] = {a}
    /\ wire[b] = {b}
    /\ auth_token[a] # NoToken
    /\ auth_token[b] = NoToken
    /\ Registered(a)
    /\ Registered(b)

\* The session s is in the registry reg.
InRegistry(reg, s) == \E i \in DOMAIN reg : reg[i] = s

\* C11: a chat_message received on a session that has not authenticated makes
\* the handler prepare the one envelope error "Authentication required" and
\* call neither the validator nor the chat responder; the envelope then goes
\* on that session's WebSocket, once, and the loop returns to receive_text;
\* auth_token and the registry are as they were throughout.
C11_UnauthenticatedChatRejected ==
  [][\A s \in Sessions :
       /\ (/\ spc[s] = "recv"
           /\ msg'[s].type = "chat_message"
           /\ auth_token[s] = NoToken)
            => /\ spc'[s] = "send"
               /\ env'[s] = Envelope("error", "Authentication required")
               /\ auth_token' = auth_token
               /\ active_connections' = active_connections
       /\ (/\ spc[s] = "send"
           /\ msg[s].type = "chat_message"
           /\ auth_token[s] = NoToken
           /\ ~broken[s]
           /\ spc'[s] # "send")
            => /\ spc'[s] = "recv"
               /\ wire' = [wire EXCEPT ![s] = @ \cup {s}]
               /\ env'[s] = NoEnv
               /\ auth_token' = auth_token
               /\ active_connections' = active_connections]_vars

C11_Witness ==
  \E s \in Sessions :
    /\ spc[s] = "send"
    /\ msg[s].type = "chat_message"
    /\ msg[s].content = "hi"
    /\ auth_token[s] = NoToken
    /\ env[s] = Envelope("error", "Authentication required")
    /\ Registered(s)
    /\ ~broken[s]

\* Inbound texts that are not a well-formed {type, payload} object.
Malformed(m) == m.type \in {"badjson", "notobject"} \/ ~m.payload_ok

\* C12: while a malformed inbound text is handled the session is not torn
\* down: the handler is about to send error "Invalid message format" (or is
\* dealing with the failure of that send) and the session is in the registry
\* unless its channel broke.
C12_MalformedNeverCloses ==
  \A s \in Sessions :
    Malformed(msg[s]) =>
      /\ spc[s] \in {"send", "send_disc"}
      /\ spc[s] = "send" => env[s] = Envelope("error", "Invalid message format")
      /\ ~broken[s] => Registered(s)

\* C13: an auth message on an unauthenticated session whose lookup did not
\* succeed (no token, no active membership, or the lookup raising) leaves the
\* handler sending auth_failed, the session unauthenticated and in the registry
\* unless its channel broke.
C13_FailedAuthKeepsSessionOpen ==
  \A s \in Sessions :
    (/\ msg[s].type = "auth"
     /\ msg[s].payload_ok
     /\ auth_token[s] = NoToken
     /\ spc[s] # "validate")
      => /\ spc[s] \in {"send", "send_disc"}
         /\ spc[s] = "send"
              => env[s] = Envelope("auth_failed", "Invalid authentication token")
         /\ ~broken[s] => Registered(s)

\* C14: Membership records issued for distinct invitations have distinct
\* membership_key values, also when they are issued within one second.
C14_MembershipKeysDistinct ==
  \A i \in Rows(memberships), j \in Rows(memberships) :
    memberships[i].invitation_code # memberships[j].invitation_code
      => memberships[i].membership_key # memberships[j].membership_key

\* C15: a request that starts after a request for the same invitation returned
\* a Membership writes no Membership, whether or not the first one has been
\* revoked since.
C15_NoReissueAfterRevocation ==
  \A q \in Calls : call[q].afterOk => ~call[q].wrote

\* C16: a request that got as far as the insert and returned 500 has written
\* no Membership (the collections are as before it, so a retry is not a
\* Conflict).
C16_CommitErrorLeavesStore ==
  \A p \in Calls :
    (/\ call[p].pc = "done"
     /\ call[p].seen = "onboarded"
     /\ call[p].result = "500")
      => ~call[p].wrote

\* C20: the onboarding collection holds at most one record per invitation.
C20_OneOnboardingRecordPerInvitation ==
  \A c \in Codes : onboarding[c] <= 1

\* C17: the reply to a chat_message with content on an authenticated session
\* whose membership is active is a chat_response carrying the responder's
\* output, not an error payload.
C17_ChatResponseCarriesContent ==
  \A s \in Sessions :
    (/\ spc[s] = "send"
     /\ msg[s].type = "chat_message"
     /\ msg[s].content # ""
     /\ auth_token[s] # NoToken
     /\ ValidatorValid(memberships, auth_token[s]))
      => /\ env[s].type = "chat_response"
         /\ env[s].payload \notin {"error: Failed to process message",
                                   "error: Invalid authentication token"}

C19_DisconnectIdempotent ==
  [][\A t \in Sessions :
       (/\ spc[t] \in {"send_disc", "closing"}
        /\ spc'[t] \notin {"send_disc", "closing"})
         => /\ ~InRegistry(active_connections', t)
            /\ \A r \in Sessions \ {t} :
                 InRegistry(active_connections', r)
                   <=> InRegistry(active_connections, r)
            /\ ~InRegistry(active_connections, t)
                 => active_connections' = active_connections
            /\ InRegistry(active_connections, t)
                 => Len(active_connections') + 1 = Len(active_connections)
            /\ spc'[t] \in {"recv", "ended"}]_vars

C19_Witness ==
  \E t \in Sessions, r \in Sessions :
    /\ t # r
    /\ spc[t] = "closing"
    /\ wire[t] = {t}
    /\ broken[t]
    /\ ~Registered(t)
    /\ active_connections = <<r>>
    /\ lock = "free"

\* C21: within one request the steps come in the order replay guard,
\* invitation precondition, credential generation, commit.  A request reaches
\* the invitation query only from a guard query that came back empty, has a
\* credential only from an invitation found "onboarded", and writes a
\* Membership only with both behind it; a request whose guard query answers
\* with an active Membership ends 409, whatever the invitation's status.
C21_GuardThenPreconditionThenCommit ==
  [][\A p \in Calls :
       /\ (call[p].pc # "fetch" /\ call'[p].pc = "fetch")
            => /\ call[p].pc = "guard"
               /\ ActiveForInvitation(memberships, call[p].code) = {}
       /\ (call[p].pc # "post" /\ call'[p].pc = "post")
            => /\ call[p].pc = "fetch"
               /\ invitations[call[p].code] = "onboarded"
               /\ call[p].rand = "none"
               /\ call'[p].rand \in Rand
       /\ (~call[p].wrote /\ call'[p].wrote)
            => /\ call[p].pc = "post"
               /\ call[p].seen = "onboarded"
               /\ memberships' = Append(memberships, memberships'[call'[p].row])
       /\ (/\ call[p].pc = "guard"
           /\ call'[p].pc # "guard"
           /\ ActiveForInvitation(memberships, call[p].code) # {}
           /\ call'[p].result # "500")
            => /\ call'[p].pc = "done"
               /\ call'[p].result = "409"
               /\ ~call'[p].wrote]_vars

C21_Witness ==
  \E p \in Calls :
    /\ call[p].pc = "done"
    /\ call[p].result = "409"
    /\ invitations[call[p].code] \in {"absent", "pending"}
    /\ ActiveForInvitation(memberships, call[p].code) # {}
    /\ ~call[p].wrote

\* Well-formed inbound messages whose type is neither auth nor chat_message.
OtherMessages ==
  {m \in Messages :
     m.payload_ok /\ m.type \notin {"auth", "chat_message", "badjson", "notobject"}}

\* C22: receiving a well-formed message of another type changes nothing: no
\* envelope is prepared or sent, auth_token and the registry are as before,
\* and the loop is back at receive_text.
C22_OtherTypesIgnored ==
  [][\A s \in Sessions, m \in OtherMessages :
       Receive(s, m)
         => /\ env' = env
            /\ wire' = wire
            /\ auth_token' = auth_token
            /\ active_connections' = active_connections
            /\ spc' = spc
            /\ bc' = bc]_vars

C22_Witness ==
  \E s \in Sessions, m \in OtherMessages :
    /\ ENABLED Receive(s, m)
    /\ Registered(s)
    /\ auth_token[s] # NoToken
    /\ wire[s] = {s}
    /\ env[s] = NoEnv

\* C23: a task that is handling an inbound message (at the lookup, at the
\* chat responder or at the send of its reply) belongs to a session that is
\* in the registry: after the entry is removed nothing more is processed.
C23_RemovedSessionProcessesNothing ==
  \A s \in Sessions :
    spc[s] \in {"validate", "chat", "send"} => Registered(s)

\* C24: the id of a session whose websocket_endpoint task has ended, for
\* whatever reason, is not in active_connections.
C24_NoEntryOutlivesItsTask ==
  \A s \in Sessions : spc[s] = "ended" => ~Registered(s)

====
